---------------------------- MODULE Spec2Model ----------------------------
(***************************************************************************)
(* A state-machine model of POLYGON_TRIANGULATION                          *)
(* (libs/kimath/include/geometry/polygon_triangulation.h): the ear-clipping *)
(* triangulator of one closed ring, with its Z-order index, its            *)
(* intersection repair, removeNullTriangles and splitPolygon fallbacks.    *)
(*                                                                         *)
(* A VERTEX* is a handle: the position of the record in the arena          *)
(* m_vertices (a std::deque, whose element addresses are stable under      *)
(* emplace_back); 0 is nullptr.  Coordinates are the integers of VECTOR2I  *)
(* held in doubles; on the small integers of the model every product and   *)
(* sum the code computes is exact, so doubles are modelled by integers.    *)
(***************************************************************************)
EXTENDS Integers, Sequences, FiniteSets

\* ------------------------------------------------------------------ bounds
\* Longest ring drawn exhaustively from the grid, and the largest grid coordinate.
MaxLen == 4

MaxCoord == 1

\* The largest width and height of the bounding boxes zOrder is tried on.
MaxSide == 5

\* ------------------------------------------------------------------ state
VARIABLES
    poly,        \* aPoly: the input ring, a sequence of points <<x, y>>
    m_bbox,      \* m_bbox: [x, y, w, h]
    m_vertices,  \* m_vertices: the arena, a sequence of VERTEX records
    m_result,    \* m_result: [vertices, triangles], the caller-owned sink
    stack,       \* the active earcutList calls, innermost last
    ret,         \* the value the innermost finished earcutList/splitPolygon returned
    pc,          \* position inside TesselatePolygon
    retval,      \* what TesselatePolygon returned
    call,        \* 1: the first call on this object, 2: a call in between, 3: the repeat
    first,       \* what the first call returned, kept for comparison by the caller
    steps        \* the number of steps the current call has taken

vars == <<poly, m_bbox, m_vertices, m_result, stack, ret, pc, retval, call, first, steps>>

NULL == 0

\* An optional value: None, or Some(v).
None == <<>>

Some(v) == <<v>>

\* ------------------------------------------------------------------ small helpers
Min(a, b) == IF a <= b THEN a ELSE b

Max(a, b) == IF a >= b THEN a ELSE b

Abs(a) == IF a < 0 THEN -a ELSE a

RECURSIVE MinOver(_, _)
MinOver(s, k) ==
    IF Len(s) = 1 THEN s[1][k] ELSE Min(s[1][k], MinOver(Tail(s), k))

RECURSIVE MaxOver(_, _)
MaxOver(s, k) ==
    IF Len(s) = 1 THEN s[1][k] ELSE Max(s[1][k], MaxOver(Tail(s), k))

\* SHAPE_LINE_CHAIN::CPoint: the index wraps around once at either end.
CPoint(points, i) ==
    IF i < 0 THEN points[i + Len(points) + 1]
    ELSE IF i >= Len(points) THEN points[i - Len(points) + 1]
    ELSE points[i + 1]

\* SHAPE_LINE_CHAIN::BBox: the axis-aligned bounds of the points.
BBox(points) ==
    IF Len(points) = 0 THEN [x |-> 0, y |-> 0, w |-> 0, h |-> 0]
    ELSE [x |-> MinOver(points, 1), y |-> MinOver(points, 2),
          w |-> MaxOver(points, 1) - MinOver(points, 1),
          h |-> MaxOver(points, 2) - MinOver(points, 2)]

\* TRIANGULATED_POLYGON: Clear, AddVertex, GetVertexCount, AddTriangle.
EmptyResult == [vertices |-> <<>>, triangles |-> <<>>]

AddVertex(res, pt) == [res EXCEPT !.vertices = Append(@, pt)]

GetVertexCount(res) == Len(res.vertices)

AddTriangle(res, a, b, c) == [res EXCEPT !.triangles = Append(@, <<a, b, c>>)]

\* ------------------------------------------------------------------ VERTEX
\* VERTEX( aIndex, aX, aY, aParent ): links null, z = 0.
VERTEX(aIndex, aX, aY) ==
    [i |-> aIndex, x |-> aX, y |-> aY, z |-> 0,
     prev |-> NULL, next |-> NULL, prevZ |-> NULL, nextZ |-> NULL]

\* VERTEX::operator==
SamePoint(a, b) == a.x = b.x /\ a.y = b.y

\* area( p, q, r ): twice the signed area, on vertex records.
area(p, q, r) == (q.y - p.y) * (r.x - q.x) - (q.x - p.x) * (r.y - q.y)

sign(aVal) == IF aVal > 0 THEN 1 ELSE IF aVal < 0 THEN -1 ELSE 0

\* overlapping( p, q, r ): q within the bounding box of p and r.
overlapping(p, q, r) ==
    /\ q.x <= Max(p.x, r.x)
    /\ q.x >= Min(p.x, r.x)
    /\ q.y <= Max(p.y, r.y)
    /\ q.y >= Min(p.y, r.y)

\* intersects without the four collinear cases: only segments that cross count.
intersects_crossingOnly(p1, q1, p2, q2) ==
    LET sign1 == sign(area(p1, q1, p2))
        sign2 == sign(area(p1, q1, q2))
        sign3 == sign(area(p2, q2, p1))
        sign4 == sign(area(p2, q2, q1))
    IN  sign1 * sign2 < 0 /\ sign3 * sign4 < 0

\* intersects( p1, q1, p2, q2 ): segments p1-q1 and p2-q2, end points included.
intersects(p1, q1, p2, q2) ==
    LET sign1 == sign(area(p1, q1, p2))
        sign2 == sign(area(p1, q1, q2))
        sign3 == sign(area(p2, q2, p1))
        sign4 == sign(area(p2, q2, q1))
    IN  \/ (sign1 # sign2 /\ sign3 # sign4)
        \/ (sign1 = 0 /\ overlapping(p1, p2, q1))
        \/ (sign2 = 0 /\ overlapping(p1, q2, q1))
        \/ (sign3 = 0 /\ overlapping(p2, p1, q2))
        \/ (sign4 = 0 /\ overlapping(p2, q1, q2))

\* inTriangle with the three tests the wrong way round.
inTriangle_flipped(p, a, b, c) ==
    /\ (c.x - p.x) * (a.y - p.y) - (a.x - p.x) * (c.y - p.y) <= 0
    /\ (a.x - p.x) * (b.y - p.y) - (b.x - p.x) * (a.y - p.y) <= 0
    /\ (b.x - p.x) * (c.y - p.y) - (c.x - p.x) * (b.y - p.y) <= 0

\* VERTEX::inTriangle: this vertex p inside or on triangle a, b, c.
inTriangle(p, a, b, c) ==
    /\ (c.x - p.x) * (a.y - p.y) - (a.x - p.x) * (c.y - p.y) >= 0
    /\ (a.x - p.x) * (b.y - p.y) - (b.x - p.x) * (a.y - p.y) >= 0
    /\ (b.x - p.x) * (c.y - p.y) - (c.x - p.x) * (b.y - p.y) >= 0


\* ------------------------------------------------------------------ Z-order
\* Lines 278-281 and 283-286: the magic-number shifts spread the low 16 bits of
\* the value so that bit k lands at bit 2k.
RECURSIVE Spread(_)
Spread(v) == IF v = 0 THEN 0 ELSE (v % 2) + 4 * Spread(v \div 2)

\* zOrder( aX, aY ): both coordinates scaled to 0..32767 across m_bbox (the
\* static_cast truncates a non-negative quotient, so it is the floor), then
\* interleaved: x | ( y << 1 ).
zOrder(aX, aY) ==
    LET x == (32767 * (aX - m_bbox.x)) \div m_bbox.w
        y == (32767 * (aY - m_bbox.y)) \div m_bbox.h
    IN  Spread(x) + 2 * Spread(y)

\* Bitwise & and | of two non-negative integers, and << on values that stay
\* below 2^31.
RECURSIVE BitAnd(_, _)
BitAnd(a, b) ==
    IF a = 0 \/ b = 0 THEN 0
    ELSE (a % 2) * (b % 2) + 2 * BitAnd(a \div 2, b \div 2)

RECURSIVE BitOr(_, _)
BitOr(a, b) ==
    IF a = 0 THEN b
    ELSE IF b = 0 THEN a
    ELSE Max(a % 2, b % 2) + 2 * BitOr(a \div 2, b \div 2)

ShiftLeft(a, k) == a * 2^k

\* The masks of lines 278-286: 0x00FF00FF, 0x0F0F0F0F, 0x33333333, 0x55555555.
Mask8 == 16711935

Mask4 == 252645135

Mask2 == 858993459

Mask1 == 1431655765

\* The four shift-and-mask lines with the masks of the last two exchanged.
shiftSpread_masksExchanged(v) ==
    LET v1 == BitAnd(BitOr(v, ShiftLeft(v, 8)), Mask8)
        v2 == BitAnd(BitOr(v1, ShiftLeft(v1, 4)), Mask4)
        v3 == BitAnd(BitOr(v2, ShiftLeft(v2, 2)), Mask1)
    IN  BitAnd(BitOr(v3, ShiftLeft(v3, 1)), Mask2)

\* Lines 278-281 (and 283-286 for y), shift by shift.
shiftSpread(v) ==
    LET v1 == BitAnd(BitOr(v, ShiftLeft(v, 8)), Mask8)
        v2 == BitAnd(BitOr(v1, ShiftLeft(v1, 4)), Mask4)
        v3 == BitAnd(BitOr(v2, ShiftLeft(v2, 2)), Mask2)
    IN  BitAnd(BitOr(v3, ShiftLeft(v3, 1)), Mask1)

\* zOrder( aX, aY ) computed with the shifts and masks of the code.
zOrderShifts(aX, aY) ==
    LET x == (32767 * (aX - m_bbox.x)) \div m_bbox.w
        y == (32767 * (aY - m_bbox.y)) \div m_bbox.h
    IN  BitOr(shiftSpread(x), ShiftLeft(shiftSpread(y), 1))

\* ------------------------------------------------------------------ list surgery
\* VERTEX::remove on the vertex with handle h of arena vs.
\* remove that unlinks the vertex from its ring but not from its Z-chain.
remove_ringOnly(vs, h) ==
    LET n  == vs[h].next
        p  == vs[h].prev
        v1 == [vs EXCEPT ![n].prev = p]
        v2 == [v1 EXCEPT ![p].next = n]
    IN  [v2 EXCEPT ![h].next = NULL, ![h].prev = NULL,
                   ![h].nextZ = NULL, ![h].prevZ = NULL]

\* remove without "nextZ->prevZ = prevZ": the next vertex of the Z-chain keeps
\* pointing back at the removed one.
remove_keepsZBackLink(vs, h) ==
    LET n  == vs[h].next
        p  == vs[h].prev
        nz == vs[h].nextZ
        pz == vs[h].prevZ
        v1 == [vs EXCEPT ![n].prev = p]
        v2 == [v1 EXCEPT ![p].next = n]
        v3 == IF pz # NULL THEN [v2 EXCEPT ![pz].nextZ = nz] ELSE v2
    IN  [v3 EXCEPT ![h].next = NULL, ![h].prev = NULL,
                   ![h].nextZ = NULL, ![h].prevZ = NULL]

remove(vs, h) ==
    LET n  == vs[h].next
        p  == vs[h].prev
        nz == vs[h].nextZ
        pz == vs[h].prevZ
        v1 == [vs EXCEPT ![n].prev = p]
        v2 == [v1 EXCEPT ![p].next = n]
        v3 == IF pz # NULL THEN [v2 EXCEPT ![pz].nextZ = nz] ELSE v2
        v4 == IF nz # NULL THEN [v3 EXCEPT ![nz].prevZ = pz] ELSE v3
    IN  [v4 EXCEPT ![h].next = NULL, ![h].prev = NULL,
                   ![h].nextZ = NULL, ![h].prevZ = NULL]

\* VERTEX::updateOrder: z is computed only while it is still 0.
updateOrder(vs, h) ==
    IF vs[h].z = 0 THEN [vs EXCEPT ![h].z = zOrder(vs[h].x, vs[h].y)] ELSE vs

\* The comparator of zSort's std::sort: (z, x, y, i).
zLess(a, b) ==
    IF a.z # b.z THEN a.z < b.z
    ELSE IF a.x # b.x THEN a.x < b.x
    ELSE IF a.y # b.y THEN a.y < b.y
    ELSE a.i < b.i

\* The vertices reached from p through next, up to but excluding this
\* (zSort's loop "for( p = next; p && p != this; p = p->next )").
RECURSIVE RingWalk(_, _, _)
RingWalk(vs, this, p) ==
    IF p = NULL \/ p = this THEN <<>> ELSE <<p>> \o RingWalk(vs, this, vs[p].next)

RingQueue(vs, this) == <<this>> \o RingWalk(vs, this, vs[this].next)

\* std::sort of the queue of handles under zLess.
RECURSIVE InsertSorted(_, _, _)
InsertSorted(vs, sorted, h) ==
    IF sorted = <<>> THEN <<h>>
    ELSE IF zLess(vs[h], vs[Head(sorted)]) THEN <<h>> \o sorted
    ELSE <<Head(sorted)>> \o InsertSorted(vs, Tail(sorted), h)

RECURSIVE SortQueue(_, _)
SortQueue(vs, queue) ==
    IF queue = <<>> THEN <<>>
    ELSE InsertSorted(vs, SortQueue(vs, Tail(queue)), Head(queue))

\* VERTEX::zSort: the ring of this, sorted, relinked through prevZ/nextZ.
zSort(vs, this) ==
    LET queue == SortQueue(vs, RingQueue(vs, this))
        n     == Len(queue)
        pos(h) == CHOOSE k \in 1..n : queue[k] = h
    IN  [h \in DOMAIN vs |->
            IF \E k \in 1..n : queue[k] = h
            THEN [vs[h] EXCEPT
                    !.prevZ = IF pos(h) = 1 THEN NULL ELSE queue[pos(h) - 1],
                    !.nextZ = IF pos(h) = n THEN NULL ELSE queue[pos(h) + 1]]
            ELSE vs[h]]

\* The while loop of VERTEX::updateList: coincident neighbours are unlinked,
\* every vertex passed gets its z.
RECURSIVE updateListLoop(_, _, _)
updateListLoop(vs, this, p) ==
    IF p = this THEN vs
    ELSE IF SamePoint(vs[p], vs[vs[p].next])
    THEN LET q  == vs[p].prev
             v1 == remove(vs, vs[q].next)
         IN  IF q = v1[q].next THEN v1
             ELSE LET v2 == updateOrder(v1, q)
                  IN  updateListLoop(v2, this, v2[q].next)
    ELSE LET v2 == updateOrder(vs, p)
         IN  updateListLoop(v2, this, v2[p].next)

\* VERTEX::updateList
updateList(vs, this) ==
    zSort(updateOrder(updateListLoop(vs, this, vs[this].next), this), this)

\* VERTEX::split: a is this; the result is the new arena and the handle b2.
\* split without "an->prev = a2" (line 133).
split_missingBackLink(vs, a, b) ==
    LET a2 == Len(vs) + 1
        b2 == Len(vs) + 2
        an == vs[a].next
        bp == vs[b].prev
        v0 == vs \o <<VERTEX(vs[a].i, vs[a].x, vs[a].y),
                      VERTEX(vs[b].i, vs[b].x, vs[b].y)>>
        v1 == [v0 EXCEPT ![a].next = b]
        v2 == [v1 EXCEPT ![b].prev = a]
        v3 == [v2 EXCEPT ![a2].next = an]
        v5 == [v3 EXCEPT ![b2].next = a2]
        v6 == [v5 EXCEPT ![a2].prev = b2]
        v7 == [v6 EXCEPT ![bp].next = b2]
        v8 == [v7 EXCEPT ![b2].prev = bp]
    IN  [vs |-> v8, newPoly |-> b2]

\* split whose two copies take each other's index.
split_copyIndexSwapped(vs, a, b) ==
    LET a2 == Len(vs) + 1
        b2 == Len(vs) + 2
        an == vs[a].next
        bp == vs[b].prev
        v0 == vs \o <<VERTEX(vs[b].i, vs[a].x, vs[a].y),
                      VERTEX(vs[a].i, vs[b].x, vs[b].y)>>
        v1 == [v0 EXCEPT ![a].next = b]
        v2 == [v1 EXCEPT ![b].prev = a]
        v3 == [v2 EXCEPT ![a2].next = an]
        v4 == [v3 EXCEPT ![an].prev = a2]
        v5 == [v4 EXCEPT ![b2].next = a2]
        v6 == [v5 EXCEPT ![a2].prev = b2]
        v7 == [v6 EXCEPT ![bp].next = b2]
        v8 == [v7 EXCEPT ![b2].prev = bp]
    IN  [vs |-> v8, newPoly |-> b2]

split(vs, a, b) ==
    LET a2 == Len(vs) + 1
        b2 == Len(vs) + 2
        an == vs[a].next
        bp == vs[b].prev
        v0 == vs \o <<VERTEX(vs[a].i, vs[a].x, vs[a].y),
                      VERTEX(vs[b].i, vs[b].x, vs[b].y)>>
        v1 == [v0 EXCEPT ![a].next = b]
        v2 == [v1 EXCEPT ![b].prev = a]
        v3 == [v2 EXCEPT ![a2].next = an]
        v4 == [v3 EXCEPT ![an].prev = a2]
        v5 == [v4 EXCEPT ![b2].next = a2]
        v6 == [v5 EXCEPT ![a2].prev = b2]
        v7 == [v6 EXCEPT ![bp].next = b2]
        v8 == [v7 EXCEPT ![b2].prev = bp]
    IN  [vs |-> v8, newPoly |-> b2]

\* insertVertex with the index taken after the point is added, without the - 1.
insertVertex_offByOne(st, pt, last) ==
    LET res == AddVertex(st.res, pt)
        v0  == Append(st.vs, VERTEX(GetVertexCount(res), pt[1], pt[2]))
        p   == Len(v0)
        v1  == IF last = NULL
               THEN [v0 EXCEPT ![p].prev = p, ![p].next = p]
               ELSE LET ln == v0[last].next
                        w1 == [v0 EXCEPT ![p].next = ln, ![p].prev = last]
                        w2 == [w1 EXCEPT ![ln].prev = p]
                    IN  [w2 EXCEPT ![last].next = p]
    IN  [vs |-> v1, res |-> res, tail |-> p]

\* insertVertex with the index taken from the position of the record in
\* m_vertices instead of the vertex count of m_result.
insertVertex_arenaIndex(st, pt, last) ==
    LET res == AddVertex(st.res, pt)
        v0  == Append(st.vs, VERTEX(Len(st.vs), pt[1], pt[2]))
        p   == Len(v0)
        v1  == IF last = NULL
               THEN [v0 EXCEPT ![p].prev = p, ![p].next = p]
               ELSE LET ln == v0[last].next
                        w1 == [v0 EXCEPT ![p].next = ln, ![p].prev = last]
                        w2 == [w1 EXCEPT ![ln].prev = p]
                    IN  [w2 EXCEPT ![last].next = p]
    IN  [vs |-> v1, res |-> res, tail |-> p]

\* insertVertex( pt, last ): the point is added to m_result and its index there
\* becomes the vertex's index; the vertex is linked in after last.
insertVertex(st, pt, last) ==
    LET res == AddVertex(st.res, pt)
        v0  == Append(st.vs, VERTEX(GetVertexCount(res) - 1, pt[1], pt[2]))
        p   == Len(v0)
        v1  == IF last = NULL
               THEN [v0 EXCEPT ![p].prev = p, ![p].next = p]
               ELSE LET ln == v0[last].next
                        w1 == [v0 EXCEPT ![p].next = ln, ![p].prev = last]
                        w2 == [w1 EXCEPT ![ln].prev = p]
                    IN  [w2 EXCEPT ![last].next = p]
    IN  [vs |-> v1, res |-> res, tail |-> p]

\* The insertion loops of createList: k runs over the point indices in the
\* order chosen by the winding test.
RECURSIVE insertAll(_, _, _)
insertAll(st, points, order) ==
    IF order = <<>> THEN st
    ELSE insertAll(insertVertex(st, CPoint(points, Head(order)), st.tail),
                   points, Tail(order))

\* The winding sum of createList: sum of (p2.x - p1.x) * (p2.y + p1.y).
RECURSIVE windingSum(_, _)
windingSum(points, i) ==
    IF i >= Len(points) THEN 0
    ELSE LET p1 == CPoint(points, i)
             p2 == CPoint(points, i + 1)
         IN  (p2[1] - p1[1]) * (p2[2] + p1[2]) + windingSum(points, i + 1)

\* createList without the winding test: the points are always inserted in
\* input order.
createList_forward(vs, res, points) ==
    LET n     == Len(points)
        order == [k \in 1..n |-> k - 1]
        st    == insertAll([vs |-> vs, res |-> res, tail |-> NULL], points, order)
    IN  IF st.tail # NULL /\ SamePoint(st.vs[st.tail], st.vs[st.vs[st.tail].next])
        THEN [st EXCEPT !.vs = remove(st.vs, st.vs[st.tail].next)]
        ELSE st

\* createList( const SHAPE_LINE_CHAIN& ): [vs, res, tail].
createList(vs, res, points) ==
    LET n     == Len(points)
        sum   == windingSum(points, 0)
        order == IF sum > 0 THEN [k \in 1..n |-> n - k] ELSE [k \in 1..n |-> k - 1]
        st    == insertAll([vs |-> vs, res |-> res, tail |-> NULL], points, order)
    IN  IF st.tail # NULL /\ SamePoint(st.vs[st.tail], st.vs[st.vs[st.tail].next])
        THEN [st EXCEPT !.vs = remove(st.vs, st.vs[st.tail].next)]
        ELSE st


\* ------------------------------------------------------------------ predicates on the ring
\* The Z-chain scans of isEar: TRUE when a vertex other than a and c lies in the
\* triangle and is not convex itself.  up follows nextZ while z <= maxZ, down
\* follows prevZ while z >= minZ.
RECURSIVE earScan(_, _, _, _, _)
earScan(vs, p, aEar, up, limitZ) ==
    IF p = NULL THEN FALSE
    ELSE IF (up /\ vs[p].z > limitZ) \/ (~up /\ vs[p].z < limitZ) THEN FALSE
    ELSE LET a == vs[aEar].prev
             c == vs[aEar].next
         IN  IF /\ p # a
                /\ p # c
                /\ inTriangle(vs[p], vs[a], vs[aEar], vs[c])
                /\ area(vs[vs[p].prev], vs[p], vs[vs[p].next]) >= 0
             THEN TRUE
             ELSE earScan(vs, IF up THEN vs[p].nextZ ELSE vs[p].prevZ,
                          aEar, up, limitZ)

\* isEar that scans the Z-chain forward only.
isEar_forwardOnly(vs, aEar) ==
    LET a == vs[vs[aEar].prev]
        b == vs[aEar]
        c == vs[vs[aEar].next]
    IN  IF area(a, b, c) >= 0 THEN FALSE
        ELSE LET maxTX == Max(a.x, Max(b.x, c.x))
                 maxTY == Max(a.y, Max(b.y, c.y))
                 maxZ  == zOrder(maxTX, maxTY)
             IN  ~earScan(vs, vs[aEar].nextZ, aEar, TRUE, maxZ)

\* isEar that lets a corner of zero area through its first test.
isEar_zeroArea(vs, aEar) ==
    LET a == vs[vs[aEar].prev]
        b == vs[aEar]
        c == vs[vs[aEar].next]
    IN  IF area(a, b, c) > 0 THEN FALSE
        ELSE LET minTX == Min(a.x, Min(b.x, c.x))
                 minTY == Min(a.y, Min(b.y, c.y))
                 maxTX == Max(a.x, Max(b.x, c.x))
                 maxTY == Max(a.y, Max(b.y, c.y))
                 minZ  == zOrder(minTX, minTY)
                 maxZ  == zOrder(maxTX, maxTY)
             IN  /\ ~earScan(vs, vs[aEar].nextZ, aEar, TRUE, maxZ)
                 /\ ~earScan(vs, vs[aEar].prevZ, aEar, FALSE, minZ)

\* isEar without the scans of the Z-chain: every convex corner is an ear.
isEar_anyConvex(vs, aEar) ==
    area(vs[vs[aEar].prev], vs[aEar], vs[vs[aEar].next]) < 0

\* isEar( aEar )
isEar(vs, aEar) ==
    LET a == vs[vs[aEar].prev]
        b == vs[aEar]
        c == vs[vs[aEar].next]
    IN  IF area(a, b, c) >= 0 THEN FALSE
        ELSE LET minTX == Min(a.x, Min(b.x, c.x))
                 minTY == Min(a.y, Min(b.y, c.y))
                 maxTX == Max(a.x, Max(b.x, c.x))
                 maxTY == Max(a.y, Max(b.y, c.y))
                 minZ  == zOrder(minTX, minTY)
                 maxZ  == zOrder(maxTX, maxTY)
             IN  /\ ~earScan(vs, vs[aEar].nextZ, aEar, TRUE, maxZ)
                 /\ ~earScan(vs, vs[aEar].prevZ, aEar, FALSE, minZ)

\* locallyInside( a, b )
locallyInside(vs, a, b) ==
    LET va == vs[a]
        vb == vs[b]
        ap == vs[va.prev]
        an == vs[va.next]
    IN  IF area(ap, va, an) < 0
        THEN area(va, vb, an) >= 0 /\ area(va, ap, vb) >= 0
        ELSE area(va, vb, ap) < 0 \/ area(va, an, vb) < 0

\* One edge p -> p.next of middleInside's loop: does it toggle "inside"?  The
\* midpoint is ((a.x + b.x) / 2, (a.y + b.y) / 2); sx and sy are its doubled
\* coordinates, and the comparison px < dx * (py - p.y) / dy + p.x is
\* multiplied through by 2 * dy (dy is not 0 when the first test passes).
middleToggle(vp, vn, sx, sy) ==
    LET dy == vn.y - vp.y
        dx == vn.x - vp.x
    IN  /\ (2 * vp.y > sy) # (2 * vn.y > sy)
        /\ IF dy > 0
           THEN (sx - 2 * vp.x) * dy < dx * (sy - 2 * vp.y)
           ELSE (sx - 2 * vp.x) * dy > dx * (sy - 2 * vp.y)

RECURSIVE middleLoop(_, _, _, _, _, _)
middleLoop(vs, a, p, sx, sy, inside) ==
    LET nowInside == IF middleToggle(vs[p], vs[vs[p].next], sx, sy)
                     THEN ~inside ELSE inside
    IN  IF vs[p].next = a THEN nowInside
        ELSE middleLoop(vs, a, vs[p].next, sx, sy, nowInside)

\* middleInside( a, b )
middleInside(vs, a, b) ==
    middleLoop(vs, a, a, vs[a].x + vs[b].x, vs[a].y + vs[b].y, FALSE)

RECURSIVE intersectsLoop(_, _, _, _)
intersectsLoop(vs, a, b, p) ==
    LET pn == vs[p].next
    IN  IF /\ vs[p].i # vs[a].i
           /\ vs[pn].i # vs[a].i
           /\ vs[p].i # vs[b].i
           /\ vs[pn].i # vs[b].i
           /\ intersects(vs[p], vs[pn], vs[a], vs[b])
        THEN TRUE
        ELSE IF pn = a THEN FALSE
        ELSE intersectsLoop(vs, a, b, pn)

\* intersectsPolygon( a, b )
intersectsPolygon(vs, a, b) == intersectsLoop(vs, a, b, vs[a].next)

\* goodSplit( a, b )
goodSplit(vs, a, b) ==
    LET va == vs[a]
        vb == vs[b]
        a_on_edge == \/ (va.nextZ # NULL /\ SamePoint(va, vs[va.nextZ]))
                     \/ (va.prevZ # NULL /\ SamePoint(va, vs[va.prevZ]))
        b_on_edge == \/ (vb.nextZ # NULL /\ SamePoint(vb, vs[vb.nextZ]))
                     \/ (vb.prevZ # NULL /\ SamePoint(vb, vs[vb.prevZ]))
        no_intersect == /\ vs[va.next].i # vb.i
                        /\ vs[va.prev].i # vb.i
                        /\ ~intersectsPolygon(vs, a, b)
        local_split == /\ locallyInside(vs, a, b)
                       /\ locallyInside(vs, b, a)
                       /\ middleInside(vs, a, b)
        same_dir == \/ area(vs[va.prev], va, vs[vb.prev]) # 0
                    \/ area(va, vs[vb.prev], vb) # 0
        has_len == /\ SamePoint(va, vb)
                   /\ area(vs[va.prev], va, vs[va.next]) > 0
                   /\ area(vs[vb.prev], vb, vs[vb.next]) > 0
    IN  no_intersect /\ local_split /\ (same_dir \/ has_len)
            /\ ~a_on_edge /\ ~b_on_edge

\* The loop of removeNullTriangles: [vs, p, retval] when it ends.
RECURSIVE nullLoop(_, _, _, _)
nullLoop(vs, aStart, p, retv) ==
    IF p = aStart THEN [vs |-> vs, p |-> p, retval |-> retv]
    ELSE IF \/ SamePoint(vs[p], vs[vs[p].next])
            \/ area(vs[vs[p].prev], vs[p], vs[vs[p].next]) = 0
    THEN LET q  == vs[p].prev
             v1 == remove(vs, vs[q].next)
         IN  IF q = v1[q].next THEN [vs |-> v1, p |-> q, retval |-> aStart]
             ELSE nullLoop(v1, aStart, v1[q].next, aStart)
    ELSE nullLoop(vs, aStart, vs[p].next, retv)

\* removeNullTriangles( aStart ): [vs, retval].
removeNullTriangles(vs, aStart) ==
    LET r  == nullLoop(vs, aStart, vs[aStart].next, NULL)
        w  == r.vs
    IN  IF area(w[w[aStart].prev], w[aStart], w[w[aStart].next]) = 0
        THEN [vs |-> remove(w, r.p), retval |-> w[r.p].next]
        ELSE [vs |-> w, retval |-> r.retval]

\* The inner while loop of splitPolygon: the first marker that gives a good
\* split with origPoly, or NULL.
RECURSIVE findMarker(_, _, _)
findMarker(vs, origPoly, marker) ==
    IF marker = vs[origPoly].prev THEN NULL
    ELSE IF vs[origPoly].i # vs[marker].i /\ goodSplit(vs, origPoly, marker)
    THEN marker
    ELSE findMarker(vs, origPoly, vs[marker].next)

\* The do-while loop of splitPolygon: <<origPoly, marker>> of the first good
\* split, or <<>> when the loop comes back to start.
RECURSIVE findSplit(_, _, _)
findSplit(vs, start, origPoly) ==
    LET m == findMarker(vs, origPoly, vs[vs[origPoly].next].next)
    IN  IF m # NULL THEN <<origPoly, m>>
        ELSE IF vs[origPoly].next = start THEN <<>>
        ELSE findSplit(vs, start, vs[origPoly].next)

\* The tail of earcutList, after the loop: three inverted points are dropped,
\* otherwise the ring must be down to two vertices or fewer.
earcutTail(vs, aPoint) ==
    IF /\ vs[aPoint].next # NULL
       /\ vs[aPoint].prev = vs[vs[aPoint].next].next
       /\ area(vs[vs[aPoint].prev], vs[aPoint], vs[vs[aPoint].next]) >= 0
    THEN TRUE
    ELSE vs[aPoint].prev = vs[aPoint].next

\* The intersection test of earcutList, lines 443-445.
repairApplies(vs, aPoint) ==
    LET prev     == vs[aPoint].prev
        next     == vs[aPoint].next
        nextNext == vs[next].next
    IN  /\ ~SamePoint(vs[prev], vs[nextNext])
        /\ intersects(vs[prev], vs[aPoint], vs[next], vs[nextNext])
        /\ locallyInside(vs, prev, nextNext)
        /\ locallyInside(vs, nextNext, prev)


\* ------------------------------------------------------------------ inputs
Grid == (0..MaxCoord) \X (0..MaxCoord)

\* Named rings beyond the exhaustive grid.
Square10 == <<<<0, 0>>, <<10, 0>>, <<10, 10>>, <<0, 10>>>>

LHexagon == <<<<0, 0>>, <<2, 0>>, <<2, 1>>, <<1, 1>>, <<1, 2>>, <<0, 2>>>>

Bowtie == <<<<0, 0>>, <<2, 2>>, <<2, 0>>, <<0, 2>>>>

\* A bowtie whose two lobes have different shapes.
BowtieSkew == <<<<0, 0>>, <<1, 1>>, <<0, 2>>, <<1, 0>>>>

\* A square with one extra point on an edge.
EdgePoint == <<<<0, 0>>, <<1, 0>>, <<2, 0>>, <<2, 2>>, <<0, 2>>>>

\* A square with a zero-area spike going out and back from a corner.
Spike == <<<<0, 0>>, <<2, 0>>, <<4, 0>>, <<2, 0>>, <<2, 2>>, <<0, 2>>>>

\* A triangle with a zero-area spike going out and back from a corner, away
\* from both edges of that corner.
SpikeOutward == <<<<0, 0>>, <<0, 1>>, <<1, 1>>, <<1, 0>>, <<0, 1>>>>

\* A simple concave heptagon.
Heptagon ==
    <<<<4, 2>>, <<1, 3>>, <<0, 3>>, <<1, 2>>, <<3, 2>>, <<1, 1>>, <<3, 0>>>>

\* Self-touching rings on which ear clipping gets stuck and the ring is split:
\* the first half fails, the second half fails, both succeed, and a ring
\* that is split twice.
SplitFirstFails ==
    <<<<0, 1>>, <<1, 1>>, <<0, 0>>, <<2, 0>>, <<0, 1>>, <<1, 0>>, <<0, 0>>>>

SplitSecondFails ==
    <<<<1, 2>>, <<1, 0>>, <<2, 0>>, <<2, 1>>, <<1, 1>>, <<2, 0>>, <<0, 0>>>>

SplitBothTrue ==
    <<<<1, 2>>, <<0, 3>>, <<3, 1>>, <<2, 0>>, <<2, 1>>, <<0, 3>>, <<2, 0>>>>

SplitTwice ==
    <<<<1, 2>>, <<0, 3>>, <<3, 2>>, <<1, 0>>, <<1, 1>>, <<0, 3>>, <<0, 0>>, <<1, 0>>>>

\* A square with a square hole, the hole bridged to the outline through the
\* edge (0,0)-(2,2), which the ring runs along once in each direction.
HoleBridge ==
    <<<<0, 0>>, <<6, 0>>, <<6, 6>>, <<0, 6>>, <<0, 0>>,
      <<2, 2>>, <<2, 4>>, <<4, 4>>, <<4, 2>>, <<2, 2>>>>

\* A ring that passes through (1,1) twice, with a reflex corner each time.
PinchedReflex == <<<<1, 1>>, <<1, 2>>, <<2, 0>>, <<1, 1>>, <<1, 0>>, <<0, 0>>>>

NamedRings ==
    {Square10, LHexagon, Bowtie, BowtieSkew, EdgePoint, Spike, SpikeOutward, Heptagon,
     SplitFirstFails, SplitSecondFails, SplitBothTrue, SplitTwice, HoleBridge,
     PinchedReflex}

\* A named ring is given from each of its points and in both directions.
Rotate(r, k) == [j \in 1..Len(r) |-> r[((j + k - 1) % Len(r)) + 1]]

Reverse(r) == [j \in 1..Len(r) |-> r[Len(r) + 1 - j]]

Scenarios ==
    UNION {{Rotate(r, k), Reverse(Rotate(r, k))} : <<r, k>> \in
              {<<r, k>> \in NamedRings \X (0..9) : k < Len(r)}}

Inputs == (UNION {[1..n -> Grid] : n \in 0..MaxLen}) \cup Scenarios

\* A ring of two distinct vertices: createList leaves fewer than three vertices.
EarlyRings == {<<<<0, 0>>, <<1, 1>>, <<0, 0>>>>}

\* What the caller's sink may hold from an earlier use.
StaleResult ==
    [vertices |-> <<<<0, 0>>, <<1, 0>>, <<0, 1>>>>, triangles |-> <<<<0, 1, 2>>>>]

\* ------------------------------------------------------------------ the state machine
Frame(aPoint) ==
    [aPoint |-> aPoint, stop |-> aPoint, stage |-> "loop", newPoly |-> NULL]

Top == stack[Len(stack)]

SetTop(f) == [stack EXCEPT ![Len(stack)] = f]

Pop == SubSeq(stack, 1, Len(stack) - 1)

Init ==
    /\ poly \in Inputs
    /\ m_bbox = [x |-> 0, y |-> 0, w |-> 0, h |-> 0]
    /\ m_vertices = <<>>
    /\ m_result \in {EmptyResult, StaleResult}
    /\ stack = <<>>
    /\ ret = None
    /\ pc = "begin"
    /\ retval = None
    /\ call = 1
    /\ first = None
    /\ steps = 0

\* TesselatePolygon without m_result.Clear().
Begin_noClear ==
    /\ pc = "begin"
    /\ m_bbox' = BBox(poly)
    /\ IF m_bbox'.w = 0 \/ m_bbox'.h = 0
       THEN pc' = "done" /\ retval' = Some(FALSE)
       ELSE pc' = "createList" /\ retval' = retval
    /\ UNCHANGED <<poly, m_vertices, m_result, stack, ret, call, first>>
    /\ steps' = steps + 1

\* TesselatePolygon, lines 68-72: the bounding box, Clear, and the early return
\* for a box without width or height.
Begin ==
    /\ pc = "begin"
    /\ m_bbox' = BBox(poly)
    /\ m_result' = EmptyResult
    /\ IF m_bbox'.w = 0 \/ m_bbox'.h = 0
       THEN pc' = "done" /\ retval' = Some(FALSE)
       ELSE pc' = "createList" /\ retval' = retval
    /\ UNCHANGED <<poly, m_vertices, stack, ret, call, first>>
    /\ steps' = steps + 1

\* TesselatePolygon, lines 77-80: createList and the early return for a ring of
\* fewer than three vertices (m_vertices is not cleared on this path).
CreateList ==
    /\ pc = "createList"
    /\ LET st == createList(m_vertices, m_result, poly)
           firstVertex == st.tail
       IN  /\ m_vertices' = st.vs
           /\ m_result' = st.res
           /\ IF \/ firstVertex = NULL
                 \/ st.vs[firstVertex].prev = st.vs[firstVertex].next
              THEN pc' = "done" /\ retval' = Some(FALSE) /\ stack' = stack
              ELSE /\ pc' = "updateList"
                   /\ retval' = retval
                   /\ stack' = <<Frame(firstVertex)>>
    /\ UNCHANGED <<poly, m_bbox, ret, call, first>>
    /\ steps' = steps + 1

\* TesselatePolygon, line 82: firstVertex->updateList(), then earcutList is entered.
UpdateList ==
    /\ pc = "updateList"
    /\ m_vertices' = updateList(m_vertices, stack[1].aPoint)
    /\ pc' = "earcut"
    /\ UNCHANGED <<poly, m_bbox, m_result, stack, ret, retval, call, first>>
    /\ steps' = steps + 1

\* The innermost earcutList is at the head of its while loop and the loop
\* condition aPoint->prev != aPoint->next holds.
InLoop ==
    /\ pc = "earcut"
    /\ ret = None
    /\ stack # <<>>
    /\ Top.stage = "loop"
    /\ m_vertices[Top.aPoint].prev # m_vertices[Top.aPoint].next

\* The ear branch without aPoint->remove(): the triangle is emitted and the
\* ear stays in the ring.
ClipEar_keepsVertex ==
    /\ InLoop
    /\ LET aPoint == Top.aPoint
           prev   == m_vertices[aPoint].prev
           next   == m_vertices[aPoint].next
       IN  /\ isEar(m_vertices, aPoint)
           /\ m_result' = AddTriangle(m_result, m_vertices[prev].i,
                                      m_vertices[aPoint].i, m_vertices[next].i)
           /\ stack' = SetTop([Top EXCEPT !.aPoint = m_vertices[next].next,
                                          !.stop = m_vertices[next].next])
    /\ UNCHANGED <<poly, m_bbox, m_vertices, ret, pc, retval, call, first>>
    /\ steps' = steps + 1

\* earcutList, lines 429-439: aPoint is an ear.
ClipEar ==
    /\ InLoop
    /\ LET aPoint == Top.aPoint
           prev   == m_vertices[aPoint].prev
           next   == m_vertices[aPoint].next
       IN  /\ isEar(m_vertices, aPoint)
           /\ m_result' = AddTriangle(m_result, m_vertices[prev].i,
                                      m_vertices[aPoint].i, m_vertices[next].i)
           /\ m_vertices' = remove(m_vertices, aPoint)
           /\ stack' = SetTop([Top EXCEPT !.aPoint = m_vertices'[next].next,
                                          !.stop = m_vertices'[next].next])
    /\ UNCHANGED <<poly, m_bbox, ret, pc, retval, call, first>>
    /\ steps' = steps + 1

\* earcutList, lines 441-457: the two edges around aPoint and next intersect.
RepairIntersection ==
    /\ InLoop
    /\ LET aPoint   == Top.aPoint
           prev     == m_vertices[aPoint].prev
           next     == m_vertices[aPoint].next
           nextNext == m_vertices[next].next
       IN  /\ ~isEar(m_vertices, aPoint)
           /\ repairApplies(m_vertices, aPoint)
           /\ m_result' = AddTriangle(m_result, m_vertices[prev].i,
                                      m_vertices[aPoint].i, m_vertices[nextNext].i)
           /\ m_vertices' = remove(remove(m_vertices, next), aPoint)
           /\ stack' = SetTop([Top EXCEPT !.aPoint = nextNext, !.stop = nextNext])
    /\ UNCHANGED <<poly, m_bbox, ret, pc, retval, call, first>>
    /\ steps' = steps + 1

\* aPoint is neither an ear nor repaired: aPoint = next (line 459).
NoCut ==
    /\ InLoop
    /\ ~isEar(m_vertices, Top.aPoint)
    /\ ~repairApplies(m_vertices, Top.aPoint)

\* earcutList without the stop marker: the loop may go past stop.
Advance_noStop ==
    /\ NoCut
    /\ stack' = SetTop([Top EXCEPT !.aPoint = m_vertices[Top.aPoint].next])
    /\ UNCHANGED <<poly, m_bbox, m_vertices, m_result, ret, pc, retval, call, first>>
    /\ steps' = steps + 1

\* earcutList, line 459 when the stop marker is not reached.
Advance ==
    /\ NoCut
    /\ m_vertices[Top.aPoint].next # Top.stop
    /\ stack' = SetTop([Top EXCEPT !.aPoint = m_vertices[Top.aPoint].next])
    /\ UNCHANGED <<poly, m_bbox, m_vertices, m_result, ret, pc, retval, call, first>>
    /\ steps' = steps + 1

\* removeNullTriangles tried after every vertex that is neither an ear nor
\* repaired, without waiting for the stop marker.
RemoveNull_early ==
    /\ NoCut
    /\ LET r == removeNullTriangles(m_vertices, m_vertices[Top.aPoint].next)
       IN  /\ r.retval # NULL
           /\ m_vertices' = r.vs
           /\ stack' = SetTop([Top EXCEPT !.aPoint = r.retval, !.stop = r.retval])
    /\ UNCHANGED <<poly, m_bbox, m_result, ret, pc, retval, call, first>>
    /\ steps' = steps + 1

\* earcutList, lines 465-474: back at stop, removeNullTriangles unlinked something.
RemoveNull ==
    /\ NoCut
    /\ m_vertices[Top.aPoint].next = Top.stop
    /\ LET r == removeNullTriangles(m_vertices, m_vertices[Top.aPoint].next)
       IN  /\ r.retval # NULL
           /\ m_vertices' = r.vs
           /\ stack' = SetTop([Top EXCEPT !.aPoint = r.retval, !.stop = r.retval])
    /\ UNCHANGED <<poly, m_bbox, m_result, ret, pc, retval, call, first>>
    /\ steps' = steps + 1

\* Back at stop with nothing to unlink: splitPolygon( aPoint ) is called.
Stuck ==
    /\ NoCut
    /\ m_vertices[Top.aPoint].next = Top.stop
    /\ removeNullTriangles(m_vertices, m_vertices[Top.aPoint].next).retval = NULL

\* splitPolygon, lines 575-582: a good split is found; the ring is split, both
\* rings are updated and earcutList( origPoly ) is entered.
SplitPolygon ==
    /\ Stuck
    /\ LET start == m_vertices[Top.aPoint].next
           found == findSplit(m_vertices, start, start)
       IN  /\ found # <<>>
           /\ LET sp == split(m_vertices, found[1], found[2])
                  v1 == updateList(sp.vs, found[1])
                  v2 == updateList(v1, sp.newPoly)
              IN  /\ m_vertices' = v2
                  /\ stack' = Append(SetTop([Top EXCEPT !.aPoint = start,
                                                        !.stage = "split1",
                                                        !.newPoly = sp.newPoly]),
                                     Frame(found[1]))
    /\ UNCHANGED <<poly, m_bbox, m_result, ret, pc, retval, call, first>>
    /\ steps' = steps + 1

\* A failed split that discards the triangles emitted so far.
SplitFail_discard ==
    /\ Stuck
    /\ LET start == m_vertices[Top.aPoint].next
       IN  findSplit(m_vertices, start, start) = <<>>
    /\ stack' = Pop
    /\ ret' = Some(FALSE)
    /\ m_result' = [m_result EXCEPT !.triangles = <<>>]
    /\ UNCHANGED <<poly, m_bbox, m_vertices, pc, retval, call, first>>
    /\ steps' = steps + 1

\* earcutList that goes on to return true when splitPolygon found no split.
SplitFail_returnsTrue ==
    /\ Stuck
    /\ LET start == m_vertices[Top.aPoint].next
       IN  findSplit(m_vertices, start, start) = <<>>
    /\ stack' = Pop
    /\ ret' = Some(TRUE)
    /\ UNCHANGED <<poly, m_bbox, m_vertices, m_result, pc, retval, call, first>>
    /\ steps' = steps + 1

\* splitPolygon, line 591, and earcutList, line 478: no good split, return false.
SplitFail ==
    /\ Stuck
    /\ LET start == m_vertices[Top.aPoint].next
       IN  findSplit(m_vertices, start, start) = <<>>
    /\ stack' = Pop
    /\ ret' = Some(FALSE)
    /\ UNCHANGED <<poly, m_bbox, m_vertices, m_result, pc, retval, call, first>>
    /\ steps' = steps + 1

\* earcutList, lines 484-496, reached because the loop condition failed.
EarcutReturn ==
    /\ pc = "earcut"
    /\ ret = None
    /\ stack # <<>>
    /\ Top.stage = "loop"
    /\ m_vertices[Top.aPoint].prev = m_vertices[Top.aPoint].next
    /\ ret' = Some(earcutTail(m_vertices, Top.aPoint))
    /\ stack' = Pop
    /\ UNCHANGED <<poly, m_bbox, m_vertices, m_result, pc, retval, call, first>>
    /\ steps' = steps + 1

\* splitPolygon, line 582: earcutList( origPoly ) returned true, so
\* earcutList( newPoly ) is entered.
SplitSecond ==
    /\ pc = "earcut"
    /\ ret = Some(TRUE)
    /\ stack # <<>>
    /\ Top.stage = "split1"
    /\ stack' = Append(SetTop([Top EXCEPT !.stage = "split2"]), Frame(Top.newPoly))
    /\ ret' = None
    /\ UNCHANGED <<poly, m_bbox, m_vertices, m_result, pc, retval, call, first>>
    /\ steps' = steps + 1

\* splitPolygon, line 582, and earcutList, line 478: one of the two earcutList
\* calls returned false (the second is not made when the first fails), so
\* splitPolygon and the calling earcutList return false.
SplitReturnFalse ==
    /\ pc = "earcut"
    /\ ret = Some(FALSE)
    /\ stack # <<>>
    /\ Top.stage \in {"split1", "split2"}
    /\ stack' = Pop
    /\ ret' = Some(FALSE)
    /\ UNCHANGED <<poly, m_bbox, m_vertices, m_result, pc, retval, call, first>>
    /\ steps' = steps + 1

\* splitPolygon returned true: earcutList breaks out of its loop (line 480)
\* and runs its tail on its own aPoint.
SplitReturnTrue ==
    /\ pc = "earcut"
    /\ ret = Some(TRUE)
    /\ stack # <<>>
    /\ Top.stage = "split2"
    /\ ret' = Some(earcutTail(m_vertices, Top.aPoint))
    /\ stack' = Pop
    /\ UNCHANGED <<poly, m_bbox, m_vertices, m_result, pc, retval, call, first>>
    /\ steps' = steps + 1

\* TesselatePolygon, lines 84-86: the outermost earcutList returned.
Finish ==
    /\ pc = "earcut"
    /\ ret # None
    /\ stack = <<>>
    /\ m_vertices' = <<>>
    /\ retval' = ret
    /\ ret' = None
    /\ pc' = "done"
    /\ UNCHANGED <<poly, m_bbox, m_result, stack, call, first>>
    /\ steps' = steps + 1

\* What the caller keeps of the first call.
Outcome ==
    [poly |-> poly, retval |-> retval, triangles |-> m_result.triangles,
     vertices |-> m_result.vertices]

\* The caller calls TesselatePolygon again with the same ring, on the same
\* POLYGON_TRIANGULATION object and the same sink (call 3 is the repeat).
CallAgain ==
    /\ pc = "done"
    /\ call \in {1, 2}
    /\ call' = 3
    /\ first' = IF call = 1 THEN Some(Outcome) ELSE first
    /\ poly' = IF call = 1 THEN poly ELSE first[1].poly
    /\ pc' = "begin"
    /\ retval' = None
    /\ steps' = 0
    /\ UNCHANGED <<m_bbox, m_vertices, m_result, stack, ret>>

\* Between the two, the caller uses the object for another ring, one that makes
\* TesselatePolygon return right after createList (call 2).
CallOther ==
    /\ pc = "done"
    /\ call = 1
    /\ call' = 2
    /\ first' = Some(Outcome)
    /\ poly' \in EarlyRings
    /\ pc' = "begin"
    /\ retval' = None
    /\ steps' = 0
    /\ UNCHANGED <<m_bbox, m_vertices, m_result, stack, ret>>

Next ==
    \/ Begin
    \/ CreateList
    \/ UpdateList
    \/ ClipEar
    \/ RepairIntersection
    \/ Advance
    \/ RemoveNull
    \/ SplitPolygon
    \/ SplitFail
    \/ EarcutReturn
    \/ SplitSecond
    \/ SplitReturnFalse
    \/ SplitReturnTrue
    \/ Finish

Spec == Init /\ [][Next]_vars

NextReuse == Next \/ CallAgain \/ CallOther

SpecReuse == Init /\ [][NextReuse]_vars

\* The steps a call on a ring of n points may take: the loop of earcutList goes
\* round a ring at most once between two removals.
StepBudget(n) == n * n + 3 * n + 6



\* ------------------------------------------------------------------ geometry of the claims
\* Twice the signed area of the triangle of three points.
Cross(a, b, c) == (b[1] - a[1]) * (c[2] - a[2]) - (b[2] - a[2]) * (c[1] - a[1])

\* Point p lies on the closed segment a-b.
OnSegment(a, b, p) ==
    /\ Cross(a, b, p) = 0
    /\ Min(a[1], b[1]) <= p[1] /\ p[1] <= Max(a[1], b[1])
    /\ Min(a[2], b[2]) <= p[2] /\ p[2] <= Max(a[2], b[2])

\* The closed segments a-b and c-d have a common point.
SegmentsMeet(a, b, c, d) ==
    \/ /\ sign(Cross(a, b, c)) # sign(Cross(a, b, d))
       /\ sign(Cross(c, d, a)) # sign(Cross(c, d, b))
    \/ OnSegment(a, b, c) \/ OnSegment(a, b, d)
    \/ OnSegment(c, d, a) \/ OnSegment(c, d, b)

PointSet(r) == {r[k] : k \in 1..Len(r)}

\* The k-th point of ring r, k counted cyclically from 1.
At(r, k) == r[((k - 1) % Len(r)) + 1]

\* A simple polygon: at least three points, all distinct, consecutive edges
\* meeting only in their common end point, other edges not meeting at all.
IsSimple(r) ==
    /\ Len(r) >= 3
    /\ Cardinality(PointSet(r)) = Len(r)
    /\ \A k \in 1..Len(r) :
          /\ ~OnSegment(At(r, k), At(r, k + 1), At(r, k + 2))
          /\ ~OnSegment(At(r, k + 1), At(r, k + 2), At(r, k))
    /\ \A j, k \in 1..Len(r) :
          (j < k /\ k # j + 1 /\ ~(j = 1 /\ k = Len(r)))
              => ~SegmentsMeet(At(r, j), At(r, j + 1), At(r, k), At(r, k + 1))

\* Twice the area enclosed by ring r (shoelace).
RECURSIVE ShoelaceFrom(_, _)
ShoelaceFrom(r, k) ==
    IF k > Len(r) THEN 0
    ELSE At(r, k)[1] * At(r, k + 1)[2] - At(r, k + 1)[1] * At(r, k)[2]
            + ShoelaceFrom(r, k + 1)

Shoelace2(r) == Abs(ShoelaceFrom(r, 1))

\* The corners of the k-th emitted triangle, read from the result's vertices.
Corners(k) ==
    [j \in 1..3 |-> m_result.vertices[m_result.triangles[k][j] + 1]]

TriArea2(k) == Abs(Cross(Corners(k)[1], Corners(k)[2], Corners(k)[3]))

RECURSIVE AreaSumFrom(_)
AreaSumFrom(k) ==
    IF k > Len(m_result.triangles) THEN 0 ELSE TriArea2(k) + AreaSumFrom(k + 1)

\* Twice the total area of the emitted triangles.
TotalArea2 == AreaSumFrom(1)

\* Some edge line of triangle T has T strictly on one side and all of U on the
\* other side or on the line.
Separates(T, U) ==
    \E e \in 1..3 :
        LET a  == T[e]
            b  == T[(e % 3) + 1]
            c  == T[((e + 1) % 3) + 1]
            sd == sign(Cross(a, b, c))
        IN  sd = 0 \/ \A u \in 1..3 : sign(Cross(a, b, U[u])) # sd

\* The interiors of two triangles have a common point.
InteriorsOverlap(T, U) == ~Separates(T, U) /\ ~Separates(U, T)

\* The ring with coincident consecutive points (cyclically) removed.
RECURSIVE DropRepeats(_)
DropRepeats(r) ==
    IF Len(r) <= 1 THEN r
    ELSE IF r[1] = r[2] THEN DropRepeats(Tail(r))
    ELSE <<r[1]>> \o DropRepeats(Tail(r))

RECURSIVE DropClosing(_)
DropClosing(r) ==
    IF Len(r) > 1 /\ r[Len(r)] = r[1] THEN DropClosing(SubSeq(r, 1, Len(r) - 1))
    ELSE r

Deduplicated(r) == DropClosing(DropRepeats(r))

Degenerate(box) == box.w = 0 \/ box.h = 0

IsPrefix(s, t) == Len(s) <= Len(t) /\ SubSeq(t, 1, Len(s)) = s

\* The indices of all emitted triangles.
EmittedIndices ==
    {m_result.triangles[k][j] : k \in 1..Len(m_result.triangles), j \in 1..3}

\* ------------------------------------------------------------------ claims
\* C1: every triangle emitted by TesselatePolygon, by the ear path or the repair
\* path, before or after a split, has three indices in 0..N-1 that are pairwise
\* distinct, N being the number of input points.
C1_IndexValidity ==
    pc # "begin" =>
        \A k \in 1..Len(m_result.triangles) :
            LET t == m_result.triangles[k]
            IN  /\ \A j \in 1..3 : t[j] \in 0..(Len(poly) - 1)
                /\ t[1] # t[2] /\ t[2] # t[3] /\ t[1] # t[3]

\* Triangles have been emitted inside the earcutList of a split-off ring.
C1_Witness ==
    /\ Len(stack) >= 2
    /\ Top.stage = "loop"
    /\ Len(m_result.triangles) >= 3

\* C2: for a simple polygon of N >= 3 distinct vertices TesselatePolygon returns
\* true with exactly N-2 triangles whose areas sum to the shoelace area; the
\* square of side 10 gives 2 triangles of combined area 100 and the L-shaped
\* hexagon gives 4 triangles.
C2_SimpleCoverage ==
    (pc = "done" /\ IsSimple(poly)) =>
        /\ retval = Some(TRUE)
        /\ Len(m_result.triangles) = Len(poly) - 2
        /\ TotalArea2 = Shoelace2(poly)
        /\ (poly = Square10 => Len(m_result.triangles) = 2 /\ TotalArea2 = 200)
        /\ (poly = LHexagon => Len(m_result.triangles) = 4)

\* The L-shaped hexagon has been triangulated.
C2_Witness ==
    /\ pc = "done"
    /\ poly = LHexagon
    /\ retval = Some(TRUE)
    /\ Len(m_result.triangles) = 4

\* The call has not returned and its next step is defined: TesselatePolygon is
\* before earcutList, or the innermost earcutList is in its loop (where exactly
\* one of the branches of lines 429-481 applies) or at its tail, or a
\* splitPolygon is waiting for the value an earcutList returned, or the
\* outermost earcutList has returned.
Running ==
    \/ pc \in {"begin", "createList", "updateList"}
    \/ /\ pc = "earcut"
       /\ \/ InLoop
          \/ /\ ret = None
             /\ stack # <<>>
             /\ Top.stage = "loop"
             /\ m_vertices[Top.aPoint].prev = m_vertices[Top.aPoint].next
          \/ ret # None /\ stack # <<>> /\ Top.stage \in {"split1", "split2"}
          \/ ret # None /\ stack = <<>>

\* C3: TesselatePolygon terminates on every input ring: a call that has not
\* returned can take a step, and it returns within a number of steps bounded
\* in the size of the ring (no loop and no recursion goes on forever).
C3_Terminates ==
    /\ pc = "done" \/ Running
    /\ steps <= StepBudget(Len(poly))

\* A call that went through a split has returned.
C3_Witness ==
    /\ pc = "done"
    /\ poly = SplitTwice
    /\ retval # None

\* The vertex records of m_vertices whose index has been emitted in a triangle.
EmittedRecords == {h \in DOMAIN m_vertices : m_vertices[h].i \in EmittedIndices}

C5_DegenerateNoTriangles ==
    (pc # "begin" /\ Cardinality(PointSet(Deduplicated(poly))) < 3) =>
        /\ m_result.triangles = <<>>
        /\ pc = "done" => retval \in {Some(TRUE), Some(FALSE)}

\* A ring of two distinct points went through earcutList and the call returned.
C5_Witness ==
    /\ pc = "done"
    /\ Cardinality(PointSet(Deduplicated(poly))) = 2
    /\ Len(Deduplicated(poly)) >= 3
    /\ m_vertices = <<>>
    /\ m_result.triangles = <<>>

\* C6: whenever the ring left after closing-point and adjacent-duplicate
\* removal has only 1 or 2 vertices, TesselatePolygon returns false.
C6_ShortRingRejected ==
    (pc = "done" /\ Len(Deduplicated(poly)) \in {1, 2}) => retval = Some(FALSE)

\* C7: when the bounding box of the ring has zero width or zero height,
\* TesselatePolygon returns false in its first step with an empty triangle
\* list, also when the result held triangles before, and creates no vertex
\* record.
C7_DegenerateBox ==
    [][(pc = "begin" /\ Degenerate(BBox(poly))) =>
           /\ pc' = "done"
           /\ retval' = Some(FALSE)
           /\ m_result' = EmptyResult
           /\ m_vertices' = m_vertices]_vars

\* The call returned on a box without area although the result held triangles.
C7_Witness ==
    /\ pc = "done"
    /\ steps = 1
    /\ Degenerate(m_bbox)
    /\ Len(poly) >= 2
    /\ m_result = EmptyResult

\* C8: after the initial clear the triangle list only grows at its end within
\* a call: every step leaves the triangles emitted so far in place, so a call
\* that returns false for want of a split keeps what it emitted.
C8_AppendOnly ==
    [][pc # "begin" => IsPrefix(m_result.triangles, m_result'.triangles)]_vars

\* A call returned false after emitting triangles.
C8_Witness ==
    /\ pc = "done"
    /\ retval = Some(FALSE)
    /\ m_result.triangles # <<>>

\* C9: a call of TesselatePolygon that repeats an earlier call's ring on the
\* same object gives the same return value, the same triangles in the same
\* order and the same result vertices, also when the call before it returned
\* early or failed.
C9_Deterministic ==
    (call = 3 /\ pc = "done") =>
        /\ retval = first[1].retval
        /\ m_result.triangles = first[1].triangles
        /\ m_result.vertices = first[1].vertices

\* The repeat was made on an object that a call returning early had left with
\* vertex records (no split has added any), and it emitted triangles.
C9_Witness ==
    /\ call = 3
    /\ pc = "earcut"
    /\ Len(stack) = 1
    /\ Top.stage = "loop"
    /\ Len(m_vertices) > Len(poly)
    /\ m_result.triangles # <<>>

\* C10: for a simple input polygon no two distinct emitted triangles have
\* interiors that overlap.
C10_DisjointInteriors ==
    (pc # "begin" /\ IsSimple(poly)) =>
        \A j, k \in 1..Len(m_result.triangles) :
            j < k => ~InteriorsOverlap(Corners(j), Corners(k))

\* A simple non-convex ring has been cut into at least three triangles.
C10_Witness ==
    /\ pc = "done"
    /\ IsSimple(poly)
    /\ Len(m_result.triangles) >= 3
    /\ \E k \in 1..Len(poly) : Cross(At(poly, k), At(poly, k + 1), At(poly, k + 2)) < 0
    /\ \E k \in 1..Len(poly) : Cross(At(poly, k), At(poly, k + 1), At(poly, k + 2)) > 0

\* The ring has a zero-area spike with its tip at position k: the points before
\* and after the tip lie on one line with it, on the same side of it.
SpikeAt(r, k) ==
    LET a == At(r, k + Len(r) - 1)
        b == At(r, k)
        c == At(r, k + 1)
    IN  /\ Len(r) >= 3
        /\ a # b /\ b # c
        /\ Cross(a, b, c) = 0
        /\ (b[1] - a[1]) * (c[1] - b[1]) + (b[2] - a[2]) * (c[2] - b[2]) < 0

\* The ring without its k-th point, coincident neighbours merged.
WithoutSpike(r, k) ==
    Deduplicated(SubSeq(r, 1, k - 1) \o SubSeq(r, k + 1, Len(r)))

\* The k-th emitted triangle is made of the three points of the spike at tip.
SpikeTriangle(k, r, tip) ==
    LET pts == {Corners(k)[j] : j \in 1..3}
    IN  /\ r[tip] \in pts
        /\ pts \subseteq {At(r, tip + Len(r) - 1), r[tip], At(r, tip + 1)}

\* C11: for a polygon with a zero-area spike (the polygon without the spike
\* being simple) the emitted triangles have the total area of the polygon
\* without the spike, and no emitted triangle is made of the spike's three
\* collinear points.
C11_SpikeIgnored ==
    pc = "done" =>
        \A tip \in 1..Len(poly) :
            (SpikeAt(poly, tip) /\ IsSimple(WithoutSpike(poly, tip))) =>
                /\ TotalArea2 = Shoelace2(WithoutSpike(poly, tip))
                /\ \A k \in 1..Len(m_result.triangles) :
                       ~SpikeTriangle(k, poly, tip)

\* The open segments a-b and c-d cross in one interior point.
CrossProperly(a, b, c, d) ==
    /\ sign(Cross(a, b, c)) * sign(Cross(a, b, d)) < 0
    /\ sign(Cross(c, d, a)) * sign(Cross(c, d, b)) < 0

\* A bowtie: a quadrilateral two opposite edges of which cross.
IsBowtie(r) ==
    /\ Len(r) = 4
    /\ \/ CrossProperly(r[1], r[2], r[3], r[4])
       \/ CrossProperly(r[2], r[3], r[4], r[1])

\* The bowtie turned so that its edges 1-2 and 3-4 are the crossing ones.
CrossingFirst(r) == IF CrossProperly(r[1], r[2], r[3], r[4]) THEN r ELSE Rotate(r, 1)

\* The crossing point of a-b and c-d is a + (LobeNum / LobeDen) * (b - a).
LobeDen(r) ==
    LET q == CrossingFirst(r)
    IN  (q[2][1] - q[1][1]) * (q[4][2] - q[3][2])
            - (q[2][2] - q[1][2]) * (q[4][1] - q[3][1])

LobeNum(r) ==
    LET q == CrossingFirst(r)
    IN  (q[3][1] - q[1][1]) * (q[4][2] - q[3][2])
            - (q[3][2] - q[1][2]) * (q[4][1] - q[3][1])

\* Twice the areas of the two lobes, both multiplied by |LobeDen|: the lobe
\* between points 2, 3 and the crossing, and the one between 4, 1 and it.
LobeFirst(r) ==
    LET q == CrossingFirst(r)
    IN  Abs(Cross(q[2], q[3], q[1])) * Abs(LobeDen(r) - LobeNum(r))

LobeSecond(r) ==
    LET q == CrossingFirst(r)
    IN  Abs(Cross(q[4], q[1], q[2])) * Abs(LobeNum(r))

\* C12: for a bowtie TesselatePolygon either returns false with triangles none
\* of which has negative area, or returns true with triangles whose total area
\* is the area of one lobe or of both lobes.
C12_BowtieOutcome ==
    (pc = "done" /\ IsBowtie(poly)) =>
        \/ /\ retval = Some(FALSE)
           /\ \A k \in 1..Len(m_result.triangles) :
                  Cross(Corners(k)[1], Corners(k)[2], Corners(k)[3]) >= 0
        \/ /\ retval = Some(TRUE)
           /\ TotalArea2 * Abs(LobeDen(poly)) \in
                  {LobeFirst(poly), LobeSecond(poly),
                   LobeFirst(poly) + LobeSecond(poly)}

\* The vertex records that are linked into a ring.
Live == {h \in DOMAIN m_vertices : m_vertices[h].next # NULL}

\* The vertices of the ring of v.
RingOf(v) == {RingQueue(m_vertices, v)[k] : k \in 1..Len(RingQueue(m_vertices, v))}

\* The ear test without the Z-order index: v is a convex corner and no other
\* vertex of its ring, apart from its two neighbours, lies in the closed
\* triangle of the corner while being a corner of area >= 0 itself.
isEarPlain(v) ==
    LET vs == m_vertices
        a  == vs[v].prev
        c  == vs[v].next
    IN  /\ area(vs[a], vs[v], vs[c]) < 0
        /\ \A q \in RingOf(v) \ {a, v, c} :
               ~(/\ inTriangle(vs[q], vs[a], vs[v], vs[c])
                 /\ area(vs[vs[q].prev], vs[q], vs[vs[q].next]) >= 0)

\* C13: for every vertex of every ring that exists while earcutList runs, the
\* ear test with its Z-chain scans bounded by minZ and maxZ gives the same
\* answer as the test that looks at every vertex of the ring.
C13_IndexedEarTest ==
    pc = "earcut" =>
        \A v \in Live : isEar(m_vertices, v) <=> isEarPlain(v)

\* A corner is convex and yet no ear, because a vertex that comes before it in
\* the Z-chain lies in its triangle; this happens in a ring made by a split.
C13_Witness ==
    /\ pc = "earcut"
    /\ Len(stack) >= 2
    /\ \E v \in Live :
           /\ ~isEar(m_vertices, v)
           /\ area(m_vertices[m_vertices[v].prev], m_vertices[v],
                   m_vertices[m_vertices[v].next]) < 0
           /\ isEar_forwardOnly(m_vertices, v)

\* The first vertex of the Z-chain of h, found through prevZ in at most n steps.
RECURSIVE ZHead(_, _)
ZHead(h, n) ==
    IF n = 0 \/ m_vertices[h].prevZ = NULL THEN h
    ELSE ZHead(m_vertices[h].prevZ, n - 1)

\* The Z-chain from h on through nextZ, at most n vertices of it.
RECURSIVE ZFrom(_, _)
ZFrom(h, n) ==
    IF n = 0 \/ h = NULL THEN <<>>
    ELSE <<h>> \o ZFrom(m_vertices[h].nextZ, n - 1)

\* The whole Z-chain that v is on (cut off when longer than the arena).
ZChain(v) == ZFrom(ZHead(v, Len(m_vertices)), Len(m_vertices) + 1)

\* The Z-chain of v holds exactly the vertices of v's ring, once each, linked
\* both ways, in non-decreasing order of (z, x, y, i), each z being the
\* Z-order of the vertex's coordinates.
ZChainSound(v) ==
    LET ch == ZChain(v)
    IN  /\ {ch[k] : k \in 1..Len(ch)} = RingOf(v)
        /\ Len(ch) = Cardinality(RingOf(v))
        /\ \A k \in 1..(Len(ch) - 1) :
               /\ m_vertices[ch[k + 1]].prevZ = ch[k]
               /\ ~zLess(m_vertices[ch[k + 1]], m_vertices[ch[k]])
        /\ \A k \in 1..Len(ch) :
               m_vertices[ch[k]].z = zOrder(m_vertices[ch[k]].x, m_vertices[ch[k]].y)

\* C14: whenever earcutList runs (so at every call of isEar and goodSplit),
\* the Z-chain of every live vertex is made of exactly the live vertices of
\* its ring, sorted by (z, x, y, index) with z = zOrder(x, y); removals keep
\* it so, and after a split each ring has its own chain.
C14_ZChain ==
    pc = "earcut" => \A v \in Live : ZChainSound(v)

\* Two rings made by a split exist side by side while the first of them is
\* being clipped, and vertices have been removed.
C14_Witness ==
    /\ pc = "earcut"
    /\ Len(stack) = 2
    /\ Top.stage = "loop"
    /\ stack[1].stage = "split1"
    /\ Cardinality(RingOf(stack[1].newPoly)) >= 3
    /\ Top.aPoint \notin RingOf(stack[1].newPoly)
    /\ Cardinality(RingOf(Top.aPoint)) >= 3
    /\ Cardinality(DOMAIN m_vertices \ Live) >= 2

\* Following next from h for n steps at most comes to v.
RECURSIVE ComesBack(_, _, _, _)
ComesBack(vs, h, v, n) ==
    IF h = v THEN TRUE
    ELSE IF n = 0 \/ h = NULL THEN FALSE
    ELSE ComesBack(vs, vs[h].next, v, n - 1)

\* The ring links of the arena vs are consistent: a record is either unlinked,
\* with all four links null, or on a ring, where next and prev undo each other
\* and following next leads back to the record (so that every record is on
\* one ring at most).
LinksSound(vs) ==
    \A v \in DOMAIN vs :
        IF vs[v].next = NULL
        THEN vs[v].prev = NULL /\ vs[v].nextZ = NULL /\ vs[v].prevZ = NULL
        ELSE /\ vs[v].prev # NULL
             /\ vs[vs[v].next].prev = v
             /\ vs[vs[v].prev].next = v
             /\ ComesBack(vs, vs[v].next, v, Len(vs))

\* The arena after insertVertex has been called for the first k input points.
Inserted(k) ==
    insertAll([vs |-> <<>>, res |-> EmptyResult, tail |-> NULL], poly,
              [j \in 1..k |-> j - 1]).vs

\* C15: the ring links are consistent in every state of a call, so after
\* every split; they are consistent after each single insertVertex of ring
\* construction, and remove() of any linked vertex leaves them consistent.
C15_RingLinks ==
    /\ LinksSound(m_vertices)
    /\ pc = "createList" => \A k \in 1..Len(poly) : LinksSound(Inserted(k))
    /\ \A v \in Live : LinksSound(remove(m_vertices, v))

\* A split has been made and vertices have been removed from both of its rings.
C15_Witness ==
    /\ pc = "earcut"
    /\ Len(stack) = 2
    /\ stack[1].stage = "split2"
    /\ Top.stage = "loop"
    /\ Cardinality(RingOf(Top.aPoint)) = 3
    /\ Cardinality(DOMAIN m_vertices \ Live) >= 3

\* C16: when TesselatePolygon has run createList and updateList, no two
\* consecutive vertices of the ring have the same coordinates, the pair of the
\* anchor and its next vertex included.
C16_NoCoincidentNeighbours ==
    (pc = "earcut" /\ steps = 3) =>
        \A v \in RingOf(stack[1].aPoint) :
            m_vertices[v].next # v =>
                ~SamePoint(m_vertices[v], m_vertices[m_vertices[v].next])

\* The sum of (x2 - x1) * (y2 + y1) over the edges of a ring, given as the
\* sequence q of its vertices, from the k-th edge on.
RECURSIVE EdgeSumFrom(_, _, _)
EdgeSumFrom(vs, q, k) ==
    IF k > Len(q) THEN 0
    ELSE LET v1 == vs[q[k]]
             v2 == vs[q[(k % Len(q)) + 1]]
         IN  (v2.x - v1.x) * (v2.y + v1.y) + EdgeSumFrom(vs, q, k + 1)

\* The winding sum of the ring of v in arena vs, traversed through next.
RingSum(vs, v) == EdgeSumFrom(vs, RingQueue(vs, v), 1)

\* C17: the ring createList builds, traversed through next, has a winding sum
\* (x2-x1)*(y2+y1) that is not positive, whatever the order of the input, and
\* the ring built from the reversed input has the same orientation.
C17_CanonicalWinding ==
    pc = "updateList" =>
        /\ RingSum(m_vertices, stack[1].aPoint) <= 0
        /\ LET rev == createList(<<>>, EmptyResult, Reverse(poly))
           IN  /\ rev.tail # NULL
               /\ sign(RingSum(rev.vs, rev.tail))
                      = sign(RingSum(m_vertices, stack[1].aPoint))

\* createList has built the ring of an input whose winding sum is positive.
C17_Witness ==
    /\ pc = "updateList"
    /\ windingSum(poly, 0) > 0
    /\ RingSum(m_vertices, stack[1].aPoint) < 0
    /\ Len(poly) >= 5

\* C18: after a successful split earcutList is called on both rings: when the
\* earcutList of the original vertex's ring has returned, with true or with
\* false, the next step enters earcutList on the ring of the new vertex.
C18_BothRingsRun ==
    [][(pc = "earcut" /\ stack # <<>> /\ Top.stage = "split1" /\ ret # None) =>
           /\ Len(stack') = Len(stack) + 1
           /\ stack'[Len(stack')] = Frame(Top.newPoly)]_vars

\* The innermost earcutList is in its loop on a ring of exactly three vertices
\* whose area is inverted (area >= 0).
InvertedThree ==
    /\ InLoop
    /\ Cardinality(RingOf(Top.aPoint)) = 3
    /\ area(m_vertices[m_vertices[Top.aPoint].prev], m_vertices[Top.aPoint],
            m_vertices[m_vertices[Top.aPoint].next]) >= 0

\* C19: when the ring is down to exactly three vertices of inverted area,
\* earcutList emits no triangle for them and does not return false.
C19_InvertedDropped ==
    [][InvertedThree => (m_result' = m_result /\ ret' # Some(FALSE))]_vars

\* The loop of the innermost earcutList has come back to the stop marker after
\* going round a ring none of whose vertices is an ear or takes the repair.
FullTraversal ==
    /\ InLoop
    /\ m_vertices[Top.aPoint].next = Top.stop
    /\ \A v \in RingOf(Top.aPoint) :
           ~isEar(m_vertices, v) /\ ~repairApplies(m_vertices, v)

\* removeNullTriangles at the stop marker unlinks nothing, and indeed the ring
\* has no coincident neighbours and no corner of zero area.
NothingToUnlink ==
    /\ removeNullTriangles(m_vertices, Top.stop).vs = m_vertices
    /\ \A v \in RingOf(Top.aPoint) :
           /\ ~SamePoint(m_vertices[v], m_vertices[m_vertices[v].next])
           /\ area(m_vertices[m_vertices[v].prev], m_vertices[v],
                   m_vertices[m_vertices[v].next]) # 0

\* A step in which removeNullTriangles unlinks vertices: the rings change, no
\* triangle is emitted and no vertex record is created.
NullRemoval ==
    /\ pc = "earcut" /\ pc' = "earcut"
    /\ m_vertices' # m_vertices
    /\ Len(m_vertices') = Len(m_vertices)
    /\ m_result' = m_result

\* A step in which splitPolygon is called: it splits the ring, creating two
\* vertex records, or finds no split and makes earcutList return false.
SplitCall ==
    /\ pc = "earcut" /\ ret = None
    /\ \/ Len(m_vertices') = Len(m_vertices) + 2
       \/ ret' = Some(FALSE)

\* C20: removeNullTriangles unlinks vertices only when the loop is back at the
\* stop marker after a full round without ear or repair, and splitPolygon is
\* called only then and only when removeNullTriangles has nothing to unlink.
C20_FallbackOrder ==
    [][/\ NullRemoval => FullTraversal
       /\ SplitCall => (FullTraversal /\ NothingToUnlink)]_vars

\* splitPolygon is about to be called: ears have been clipped, the loop has
\* gone a full round of the four or more vertices left, and removeNullTriangles
\* has found nothing to unlink.
C20_Witness ==
    /\ Stuck
    /\ FullTraversal
    /\ NothingToUnlink
    /\ Cardinality(RingOf(Top.aPoint)) >= 4
    /\ Len(m_result.triangles) >= 1

\* The corner at vertex a has positive area.
PositiveCorner(a) ==
    area(m_vertices[m_vertices[a].prev], m_vertices[a],
         m_vertices[m_vertices[a].next]) > 0

\* a and b are a hole-bridge pair: two vertices of one ring with identical
\* coordinates that are not ring neighbours and have positive-area corners,
\* the diagonal between them meeting no edge and lying inside the ring.  The
\* diagonal has no length, so its two end points and its midpoint are the same
\* point, and lying inside is what middleInside decides.
HoleBridgePair(a, b) ==
    /\ a # b
    /\ SamePoint(m_vertices[a], m_vertices[b])
    /\ m_vertices[a].next # b /\ m_vertices[a].prev # b
    /\ m_vertices[m_vertices[a].next].i # m_vertices[b].i
    /\ m_vertices[m_vertices[a].prev].i # m_vertices[b].i
    /\ PositiveCorner(a) /\ PositiveCorner(b)
    /\ ~intersectsPolygon(m_vertices, a, b)
    /\ middleInside(m_vertices, a, b)

RingIn(vs, v) == {RingQueue(vs, v)[k] : k \in 1..Len(RingQueue(vs, v))}

\* What split(a, b) makes of the ring of a in the arena vs.
SplitSound(vs, a, b) ==
    LET sp   == split(vs, a, b)
        w    == sp.vs
        a2   == Len(vs) + 1
        b2   == Len(vs) + 2
        old  == RingIn(vs, a)
        n    == Cardinality(old)
        ownA == RingIn(w, a)
        ownB == RingIn(w, b2)
    IN  /\ Len(w) = Len(vs) + 2
        /\ sp.newPoly = b2
        /\ w[a2].i = vs[a].i /\ w[a2].x = vs[a].x /\ w[a2].y = vs[a].y
        /\ w[b2].i = vs[b].i /\ w[b2].x = vs[b].x /\ w[b2].y = vs[b].y
        /\ ownA \cap ownB = {}
        /\ Cardinality(ownA) + Cardinality(ownB) = n + 2
        /\ Cardinality(ownA) \in 3..(n - 1)
        /\ Cardinality(ownB) \in 3..(n - 1)
        /\ \A v \in ownA \cup ownB : w[w[v].next].prev = v
        /\ w[a].next = b
        /\ w[b2].next = a2
        /\ ownA \cup ownB = old \cup {a2, b2}
        /\ \A v \in DOMAIN vs \ old : w[v] = vs[v]

\* C22: at every splitPolygon call, split(a, b) of any two vertices of the
\* ring that are not neighbours makes two new records, copies of a and b, and
\* two disjoint rings: the sizes add up to n + 2 and are between 3 and n - 1,
\* the ring of a has the edge a -> b and the new ring the edge b2 -> a2, and
\* each vertex of the old ring is in exactly one of the two.
C22_SplitRings ==
    Stuck => \A a, b \in RingOf(Top.aPoint) :
                 (b # a /\ b # m_vertices[a].next /\ b # m_vertices[a].prev)
                     => SplitSound(m_vertices, a, b)

\* splitPolygon has just split a ring: the two new records are the last of
\* the arena, the ring of the new one is about to be clipped after the ring
\* of the old one.
C22_Witness ==
    /\ pc = "earcut"
    /\ Len(stack) >= 2
    /\ stack[Len(stack) - 1].stage = "split1"
    /\ stack[Len(stack) - 1].newPoly = Len(m_vertices)
    /\ Top = Frame(Top.aPoint)
    /\ m_vertices[Top.aPoint].next # NULL
    /\ Top.aPoint \notin RingOf(Len(m_vertices))
    /\ m_result.triangles = <<>>

\* The innermost earcutList calls removeNullTriangles( aPoint ): the loop has
\* come to the stop marker (FullTraversal says how).
NullCall ==
    /\ NoCut
    /\ m_vertices[Top.aPoint].next = Top.stop

\* C23: at every call, removeNullTriangles returns a vertex exactly when it
\* unlinked one, and the vertex it returns is a vertex of the ring it was
\* called on that is still linked, with next and prev set.
C23_ValidAnchor ==
    NullCall =>
        LET r == removeNullTriangles(m_vertices, Top.stop)
        IN  /\ (r.retval # NULL) <=> (r.vs # m_vertices)
            /\ r.retval # NULL =>
                   /\ r.retval \in RingOf(Top.stop)
                   /\ r.vs[r.retval].next # NULL
                   /\ r.vs[r.retval].prev # NULL

\* C24: whenever TesselatePolygon has returned, by whichever path, the arena
\* m_vertices is empty.
C24_ArenaEmptied ==
    pc = "done" => m_vertices = <<>>

\* The coordinates of the vertex with handle h.
Pt(h) == <<m_vertices[h].x, m_vertices[h].y>>

\* The four conditions of the intersection repair at the current vertex v of
\* the innermost earcutList, with p = v.prev, n = v.next and nn = n.next.
RepairCase(p, v, n, nn) ==
    /\ ~isEar(m_vertices, v)
    /\ Pt(p) # Pt(nn)
    /\ SegmentsMeet(Pt(p), Pt(v), Pt(n), Pt(nn))
    /\ locallyInside(m_vertices, p, nn)
    /\ locallyInside(m_vertices, nn, p)

\* The record of h is unlinked from its ring and from its Z-chain, and no
\* linked record points to it.
Unlinked(h) ==
    /\ m_vertices[h].next = NULL /\ m_vertices[h].prev = NULL
    /\ m_vertices[h].nextZ = NULL /\ m_vertices[h].prevZ = NULL
    /\ \A q \in Live : /\ m_vertices[q].next # h /\ m_vertices[q].prev # h
                       /\ m_vertices[q].nextZ # h /\ m_vertices[q].prevZ # h

\* C25: in the loop of earcutList the repair is made exactly when its four
\* conditions hold at the current vertex v; the step emits the one triangle
\* (p.i, v.i, nn.i), unlinks v and n from ring and Z-chain, and goes on from nn
\* with the stop marker at nn.  No other step emits a triangle while
\* unlinking two vertices.
C25_RepairStep ==
    [][InLoop =>
          \A v \in {Top.aPoint} :
          \A p \in {m_vertices[v].prev} :
          \A n \in {m_vertices[v].next} :
          \A nn \in {m_vertices[n].next} :
          \A tri \in {<<m_vertices[p].i, m_vertices[v].i, m_vertices[nn].i>>} :
              IF RepairCase(p, v, n, nn)
              THEN /\ m_result'.triangles = Append(m_result.triangles, tri)
                   /\ Unlinked(v)' /\ Unlinked(n)'
                   /\ Live' = Live \ {v, n}
                   /\ Top'.aPoint = nn /\ Top'.stop = nn
                   /\ Len(stack') = Len(stack)
              ELSE ~(/\ Len(m_result'.triangles) = Len(m_result.triangles) + 1
                     /\ Cardinality(Live') = Cardinality(Live) - 2)]_vars

\* The repair has just been made, as the first step of earcutList on a ring of
\* distinct points: that one step has emitted one triangle and unlinked two
\* records, and the loop stands on a vertex that is still linked.
C25_Witness ==
    /\ pc = "earcut" /\ stack # <<>> /\ ret = None
    /\ Top.stage = "loop"
    /\ Top.aPoint = Top.stop
    /\ steps = 4
    /\ Cardinality(PointSet(poly)) = Len(poly)
    /\ Len(m_result.triangles) = 1
    /\ Cardinality(DOMAIN m_vertices \ Live) = 2
    /\ Top.aPoint \in Live

\* The bit interleave of x and y: bit k of x at bit 2k, bit k of y at bit 2k + 1.
RECURSIVE Morton(_, _)
Morton(x, y) ==
    IF x = 0 /\ y = 0 THEN 0
    ELSE (x % 2) + 2 * (y % 2) + 4 * Morton(x \div 2, y \div 2)

\* The largest value of a signed 32-bit integer.
MaxInt32 == 2147483647

\* The bounding boxes zOrder is called with: an origin on the grid, a width
\* and a height of 1 to MaxSide.
Boxes ==
    [x : 0..MaxCoord, y : 0..MaxCoord, w : 1..MaxSide, h : 1..MaxSide]

\* The integer points of the box.
BoxPoints(box) ==
    (box.x..(box.x + box.w)) \X (box.y..(box.y + box.h))

\* zOrder called for two points of one bounding box, the second not smaller
\* than the first in either coordinate: poly holds the two points, retval
\* the two keys.
InitZ ==
    /\ m_bbox \in Boxes
    /\ poly \in {<<p1, p2>> : <<p1, p2>> \in
                    {pp \in BoxPoints(m_bbox) \X BoxPoints(m_bbox) :
                         pp[1][1] <= pp[2][1] /\ pp[1][2] <= pp[2][2]}}
    /\ m_vertices = <<>>
    /\ m_result = EmptyResult
    /\ stack = <<>>
    /\ ret = None
    /\ pc = "zOrder"
    /\ retval = None
    /\ call = 1
    /\ first = None
    /\ steps = 0

ZOrderCalls ==
    /\ pc = "zOrder"
    /\ retval' = Some(<<zOrderShifts(poly[1][1], poly[1][2]),
                        zOrderShifts(poly[2][1], poly[2][2])>>)
    /\ pc' = "done"
    /\ steps' = steps + 1
    /\ UNCHANGED <<poly, m_bbox, m_vertices, m_result, stack, ret, call, first>>

SpecZ == InitZ /\ [][ZOrderCalls]_vars

\* C26: for two points of the bounding box with x1 <= x2 and y1 <= y2, the
\* keys zOrder returns satisfy 0 <= key1 <= key2 <= MaxInt32, and each key is
\* the bit interleave of the point's two coordinates scaled to 0..32767.  The
\* key the model's zOrder gives is the same.
C26_ZOrderMonotone ==
    (pc = "done" /\ retval # None) =>
        /\ 0 <= retval[1][1]
        /\ retval[1][1] <= retval[1][2]
        /\ retval[1][2] <= MaxInt32
        /\ \A k \in 1..2 :
               /\ retval[1][k] =
                      Morton((32767 * (poly[k][1] - m_bbox.x)) \div m_bbox.w,
                             (32767 * (poly[k][2] - m_bbox.y)) \div m_bbox.h)
               /\ retval[1][k] = zOrder(poly[k][1], poly[k][2])

\* In a box of 3 by 5 the far corner has the largest key there is, thirty
\* bits set, and the point one across and two up has a key between 0 and
\* that, in which bits of both coordinates are set.
C26_Witness ==
    /\ pc = "done"
    /\ m_bbox.w = 3 /\ m_bbox.h = 5
    /\ poly = <<<<m_bbox.x + 1, m_bbox.y + 2>>, <<m_bbox.x + 3, m_bbox.y + 5>>>>
    /\ retval = Some(<<Morton(10922, 13106), 1073741823>>)
    /\ Morton(10922, 13106) > Morton(10922, 0)
    /\ Morton(10922, 13106) > Morton(0, 13106)

\* area( p, q, r ) of the three points that triangle k of the result refers to.
EmittedArea(k) ==
    LET t == m_result.triangles[k]
        p == m_result.vertices[t[1] + 1]
        q == m_result.vertices[t[2] + 1]
        r == m_result.vertices[t[3] + 1]
    IN  (q[2] - p[2]) * (r[1] - q[1]) - (q[1] - p[1]) * (r[2] - q[2])

\* C27: every triangle in the result, whether an ear or a repair emitted it,
\* has three points that are not collinear and are in the canonical
\* orientation: area( p, v, n ) < 0.
C27_TrianglesValid ==
    pc # "begin" => \A k \in 1..Len(m_result.triangles) : EmittedArea(k) < 0

\* earcutList is about to read aPoint->prev and aPoint->next: at the head of
\* its loop, or in its tail after splitPolygon returned true.
ReadsAPoint ==
    /\ pc = "earcut"
    /\ stack # <<>>
    /\ \/ (Top.stage = "loop" /\ ret = None)
       \/ (Top.stage = "split2" /\ ret = Some(TRUE))

C30_TriangleCount ==
    (pc # "begin" /\ Len(poly) >= 2) => Len(m_result.triangles) <= Len(poly) - 2

\* A ring of six points or more has been clipped down to the end, and the
\* result holds exactly N - 2 triangles: the bound is reached.
C30_Witness ==
    /\ pc = "earcut" /\ stack = <<>> /\ ret = Some(TRUE)
    /\ Len(poly) >= 6
    /\ Len(m_result.triangles) = Len(poly) - 2

=============================================================================
